---------------------------- MODULE Spec2Model ----------------------------
(***************************************************************************)
(* A model of misc_functions.py: image preprocessing and its inverse,      *)
(* saliency maps, gradient and class-activation export to the results      *)
(* directory, parameter selection and prediction reading.                  *)
(*                                                                         *)
(* Arrays are nested sequences (numpy's axes, outermost first; index k of  *)
(* the source is index k+1 here).  Floating-point values are exact         *)
(* rationals <<numerator, denominator>> in lowest terms with a positive    *)
(* denominator; <<0, 0>> is NaN and <<1, 0>>, <<-1, 0>> are the infinities.*)
(***************************************************************************)
EXTENDS Integers, Sequences, FiniteSets, TLC

VARIABLES
    pc,             \* where the modelled call sequence stands
    cv2im,          \* preprocess_image: the H x W x 3 input image
    resize_im,      \* preprocess_image: the resize flag
    im_as_var,      \* preprocess_image's result, recreate_image's input
    recreated_im,   \* recreate_image's result
    gradient,       \* get_positive_negative_saliency: the gradient array
    pos_saliency,   \* get_positive_negative_saliency: the first result
    neg_saliency,   \* get_positive_negative_saliency: the second result
    results_exists, \* the file system: the results directory exists
    files,          \* the file system: path -> the image last written to it
    heap,           \* the arrays alive in a save_gradient_images call, by reference
    call,           \* the last call: its function and arguments
    log,            \* the file-system operations of the last export call, in order
    ret,            \* the value the last call returned
    raised,         \* the exception the last call ended in, "" when it returned
    ncalls,         \* the number of export calls made
    locals          \* get_params: the local variables bound when the call ended

imageVars == <<cv2im, resize_im, im_as_var, recreated_im>>

saliencyVars == <<gradient, pos_saliency, neg_saliency>>

fsVars == <<results_exists, files>>

callVars == <<heap, call, log, ret, raised, ncalls>>

vars == <<pc, imageVars, saliencyVars, fsVars, callVars, locals>>

\* A variable that holds nothing yet.
Unset == <<>>

-----------------------------------------------------------------------------
(* Bounds of the model. *)

MaxH == 2
MaxW == 2
MaxCalls == 2
MaxN == 3

-----------------------------------------------------------------------------
(* Exact arithmetic standing for the float arithmetic of numpy. *)

Abs(x) == IF x < 0 THEN -x ELSE x

RECURSIVE GCD(_, _)
GCD(a, b) == IF b = 0 THEN a ELSE GCD(b, a % b)

NaN == <<0, 0>>

IsNaN(a) == a = NaN

IsFinite(a) == a[2] # 0

\* The rational n/d in lowest terms; d = 0 gives NaN or a signed infinity.
Rat(n, d) ==
    IF d = 0 THEN <<(IF n > 0 THEN 1 ELSE IF n < 0 THEN -1 ELSE 0), 0>>
    ELSE LET g == GCD(Abs(n), Abs(d))
             s == IF d < 0 THEN -1 ELSE 1
         IN  <<(s * n) \div g, (s * d) \div g>>

FromInt(n) == <<n, 1>>

FNeg(a) == <<-a[1], a[2]>>

FAdd(a, b) ==
    IF IsNaN(a) \/ IsNaN(b) THEN NaN
    ELSE IF ~IsFinite(a) THEN (IF ~IsFinite(b) /\ b # a THEN NaN ELSE a)
    ELSE IF ~IsFinite(b) THEN b
    ELSE LET g == GCD(a[2], b[2])
         IN  Rat(a[1] * (b[2] \div g) + b[1] * (a[2] \div g), (a[2] \div g) * b[2])

FSub(a, b) == FAdd(a, FNeg(b))

FMul(a, b) ==
    IF IsNaN(a) \/ IsNaN(b) THEN NaN
    ELSE LET g1 == GCD(Abs(a[1]), b[2])
             g2 == GCD(Abs(b[1]), a[2])
         IN  IF g1 = 0 \/ g2 = 0
             THEN Rat(a[1] * b[1], a[2] * b[2])
             ELSE Rat((a[1] \div g1) * (b[1] \div g2), (a[2] \div g2) * (b[2] \div g1))

\* a / b as IEEE division: x/0 is a signed infinity, 0/0 is NaN.
FDiv(a, b) ==
    IF IsNaN(a) \/ IsNaN(b) THEN NaN
    ELSE IF b[1] = 0 /\ b[2] # 0 THEN Rat(a[1], 0)
    ELSE IF ~IsFinite(b) THEN (IF IsFinite(a) THEN FromInt(0) ELSE NaN)
    ELSE FMul(a, IF b[1] < 0 THEN <<-b[2], -b[1]>> ELSE <<b[2], b[1]>>)

\* a < b; every comparison with NaN is false.
FLess(a, b) ==
    /\ ~IsNaN(a)
    /\ ~IsNaN(b)
    /\ IF IsFinite(a) /\ IsFinite(b) THEN a[1] * b[2] < b[1] * a[2]
       ELSE IF ~IsFinite(a) THEN a[1] < 0 /\ b # a
       ELSE b[1] > 0

FLeq(a, b) == ~IsNaN(a) /\ ~IsNaN(b) /\ ~FLess(b, a)

\* The integer part of a finite value, towards minus infinity.
Floor(a) == a[1] \div a[2]

\* np.round: to the nearest integer, a tie to the even neighbour.
NpRound(a) ==
    IF ~IsFinite(a) THEN a
    ELSE LET f == Floor(a)
             r == a[1] - f * a[2]
         IN  IF 2 * r < a[2] THEN FromInt(f)
             ELSE IF 2 * r > a[2] THEN FromInt(f + 1)
             ELSE FromInt(IF f % 2 = 0 THEN f ELSE f + 1)

\* np.uint8 of a finite float: the fraction is dropped (towards zero) and the
\* integer is taken modulo 2^8.
Uint8(a) ==
    LET t == IF a[1] >= 0 THEN a[1] \div a[2] ELSE -((-a[1]) \div a[2])
    IN  t % 256

\* Bytes a cast of NaN or of an infinity to uint8 may give: the conversion is
\* undefined, and the model lets it give any of these.
UndefinedBytes == {0, 128, 255}

\* np.uint8 of any float; undef is the byte the build gives for a value that is
\* not finite.
Uint8U(a, undef) == IF IsFinite(a) THEN Uint8(a) ELSE undef

-----------------------------------------------------------------------------
(* Array helpers. *)

\* x[..., ::-1] of an array with three axes.
ReverseLastAxis(x) ==
    LET n1 == Len(x)
        n2 == Len(x[1])
        n3 == Len(x[1][1])
    IN  [i \in 1..n1 |-> [j \in 1..n2 |-> [k \in 1..n3 |-> x[i][j][n3 + 1 - k]]]]

\* x.transpose(2, 0, 1): H x W x C to C x H x W.
Transpose201(x) ==
    LET n1 == Len(x)
        n2 == Len(x[1])
        n3 == Len(x[1][1])
    IN  [c \in 1..n3 |-> [i \in 1..n1 |-> [j \in 1..n2 |-> x[i][j][c]]]]

\* x.transpose(1, 2, 0): C x H x W to H x W x C.
Transpose120(x) ==
    LET n1 == Len(x)
        n2 == Len(x[1])
        n3 == Len(x[1][1])
    IN  [i \in 1..n2 |-> [j \in 1..n3 |-> [c \in 1..n1 |-> x[c][i][j]]]]

\* f applied to every element of an array with three axes.
Map3(f(_), x) ==
    LET n1 == Len(x)
        n2 == Len(x[1])
        n3 == Len(x[1][1])
    IN  [i \in 1..n1 |-> [j \in 1..n2 |-> [k \in 1..n3 |-> f(x[i][j][k])]]]

\* f applied to every element of a matrix.
Map2(f(_), x) ==
    LET n1 == Len(x)
        n2 == Len(x[1])
    IN  [i \in 1..n1 |-> [j \in 1..n2 |-> f(x[i][j])]]

\* The shape of an array with three axes, and of one with four.
Shape3(x) == <<Len(x), Len(x[1]), Len(x[1][1])>>

Shape4(x) == <<Len(x)>> \o Shape3(x[1])

-----------------------------------------------------------------------------
(* preprocess_image and recreate_image. *)

\* mean and std list for channels (Imagenet)
mean == <<Rat(485, 1000), Rat(456, 1000), Rat(406, 1000)>>

std == <<Rat(229, 1000), Rat(224, 1000), Rat(225, 1000)>>

reverse_mean == <<Rat(-485, 1000), Rat(-456, 1000), Rat(-406, 1000)>>

reverse_std ==
    <<FDiv(FromInt(1), Rat(229, 1000)), FDiv(FromInt(1), Rat(224, 1000)),
      FDiv(FromInt(1), Rat(225, 1000))>>

\* The side of the square preprocess_image resizes to.
ResizeSide == 224

\* cv2.resize(img, (w, h)): an h x w image sampled from img.  The library
\* interpolates; the model takes the source pixel under each target pixel.
Cv2Resize(img, w, h) ==
    LET rows == Len(img)
        cols == Len(img[1])
    IN  [i \in 1..h |->
            [j \in 1..w |->
                img[(((i - 1) * rows) \div h) + 1][(((j - 1) * cols) \div w) + 1]]]

\* NormalizeChannel with the division by 255 left out.
NormalizeChannel_Unscaled(x, channel) == FDiv(FSub(x, mean[channel]), std[channel])

\* The loop body of preprocess_image for one element of a channel.
NormalizeChannel(x, channel) ==
    FDiv(FSub(FDiv(x, FromInt(255)), mean[channel]), std[channel])

preprocess_image(im, resize) ==
    LET resized    == IF resize THEN Cv2Resize(im, ResizeSide, ResizeSide) ELSE im
        im_as_arr  == Transpose201(ReverseLastAxis(Map3(FromInt, resized)))
        normalized ==
            [channel \in 1..Len(im_as_arr) |->
                LET Norm(x) == NormalizeChannel(x, channel)
                IN  Map2(Norm, im_as_arr[channel])]
    IN  <<normalized>>

\* The loop body of recreate_image for one element of channel c.
DenormalizeChannel(x, c) == FSub(FDiv(x, reverse_std[c]), reverse_mean[c])

\* Clip01 without the upper bound: values above 1 reach the cast and wrap.
Clip01_NoUpper(x) == IF FLess(x, FromInt(0)) THEN FromInt(0) ELSE x

\* recreated_im[recreated_im > 1] = 1; recreated_im[recreated_im < 0] = 0
Clip01(x) ==
    IF FLess(FromInt(1), x) THEN FromInt(1)
    ELSE IF FLess(x, FromInt(0)) THEN FromInt(0)
    ELSE x

RecreatePixel(x) == Uint8(NpRound(FMul(Clip01(x), FromInt(255))))

\* recreate_image without the final channel reversal.
recreate_image_NoChannelSwap(var) ==
    LET data   == var[1]
        denorm ==
            [c \in 1..Len(data) |->
                LET Den(x) == FSub(FDiv(x, reverse_std[c]), reverse_mean[c])
                IN  Map2(Den, data[c])]
        Pixel(x) ==
            Uint8(NpRound(FMul(IF FLess(FromInt(1), x) THEN FromInt(1)
                               ELSE IF FLess(x, FromInt(0)) THEN FromInt(0)
                               ELSE x, FromInt(255))))
    IN  Transpose120(Map3(Pixel, denorm))

recreate_image(var) ==
    LET data     == var[1]
        denorm   ==
            [c \in 1..Len(data) |->
                IF c <= 3
                THEN LET Den(x) == DenormalizeChannel(x, c) IN Map2(Den, data[c])
                ELSE data[c]]
        as_uint8 == Map3(RecreatePixel, denorm)
    IN  ReverseLastAxis(Transpose120(as_uint8))

-----------------------------------------------------------------------------
(* The inputs of the image specification. *)

\* An h x w x 3 8-bit image; as seed runs over 0..255 every channel of every
\* pixel takes every value, and neighbouring elements differ.
ImagePattern(seed, h, w) ==
    [i \in 1..h |->
        [j \in 1..w |->
            [k \in 1..3 |-> (seed + 85 * (k - 1) + 37 * (j - 1) + 11 * (i - 1)) % 256]]]

\* Tensor values on both sides of the clipping thresholds, and ties of the
\* rounding (channel 0: 255 * d = 1/2 and 3/2).
TensorSamples ==
    <<Rat(-3, 1), Rat(-485, 229), Rat(-24635, 11679), Rat(-8145, 3893),
      Rat(0, 1), Rat(1, 3), Rat(515, 229), Rat(17, 7), Rat(66, 25), Rat(3, 1),
      Rat(-57, 28), Rat(-406, 225), Rat(1, 7), Rat(-1, 2)>>

\* A 1 x 3 x h x w tensor of samples.
TensorPattern(seed, h, w) ==
    <<[c \in 1..3 |->
        [i \in 1..h |->
            [j \in 1..w |->
                TensorSamples[((seed + 5 * (c - 1) + 3 * (i - 1) + (j - 1))
                               % Len(TensorSamples)) + 1]]]]>>

Shapes == (1..MaxH) \X (1..MaxW)

\* The images preprocess_image is given without resizing, and with.
ImageInputs == {ImagePattern(seed, s[1], s[2]) : seed \in 0..255, s \in Shapes}

ResizeInputs == {ImagePattern(0, s[1], s[2]) : s \in Shapes}

TensorInputs ==
    {TensorPattern(seed, s[1], s[2]) : seed \in 0..(Len(TensorSamples) - 1), s \in Shapes}

\* The variables of the other specifications, which this one leaves alone.
IdleImage ==
    /\ cv2im = Unset
    /\ resize_im = FALSE
    /\ im_as_var = Unset
    /\ recreated_im = Unset

IdleSaliency ==
    /\ gradient = Unset
    /\ pos_saliency = Unset
    /\ neg_saliency = Unset

IdleExport ==
    /\ results_exists = FALSE
    /\ files = <<>>
    /\ heap = <<>>
    /\ call = Unset
    /\ log = <<>>
    /\ ret = Unset
    /\ raised = ""
    /\ ncalls = 0
    /\ locals = <<>>

InitImage ==
    /\ IdleSaliency
    /\ IdleExport
    /\ recreated_im = Unset
    /\ \/ /\ pc = "image"
          /\ resize_im = FALSE
          /\ cv2im \in ImageInputs
          /\ im_as_var = Unset
       \/ /\ pc = "image"
          /\ resize_im = TRUE
          /\ cv2im \in ResizeInputs
          /\ im_as_var = Unset
       \/ /\ pc = "tensor"
          /\ resize_im = FALSE
          /\ cv2im = Unset
          /\ im_as_var \in TensorInputs

\* im_as_var = preprocess_image(cv2im, resize_im)
PreprocessImage ==
    /\ pc = "image"
    /\ im_as_var' = preprocess_image(cv2im, resize_im)
    /\ pc' = "preprocessed"
    /\ UNCHANGED <<cv2im, resize_im, recreated_im, saliencyVars, fsVars, callVars, locals>>

\* recreated_im = recreate_image(im_as_var)
RecreateImage ==
    /\ pc \in {"preprocessed", "tensor"}
    /\ recreated_im' = recreate_image(im_as_var)
    /\ pc' = "recreated"
    /\ UNCHANGED <<cv2im, resize_im, im_as_var, saliencyVars, fsVars, callVars, locals>>

NextImage == PreprocessImage \/ RecreateImage

SpecImage == InitImage /\ [][NextImage]_vars

-----------------------------------------------------------------------------
(* get_positive_negative_saliency. *)

\* The elements of an array with three axes.
Elements(x) ==
    {x[c][i][j] : c \in 1..Len(x), i \in 1..Len(x[1]), j \in 1..Len(x[1][1])}

\* x.max() and x.min() of an array of finite values.
ArrayMax(x) == CHOOSE m \in Elements(x) : \A e \in Elements(x) : FLeq(e, m)

ArrayMin(x) == CHOOSE m \in Elements(x) : \A e \in Elements(x) : FLeq(m, e)

\* np.maximum(0, v)
Maximum0(v) == IF FLess(FromInt(0), v) THEN v ELSE FromInt(0)

\* get_positive_negative_saliency dividing by gradient.min() without negating it.
get_positive_negative_saliency_SignedMin(g) ==
    LET gmax == ArrayMax(g)
        gmin == ArrayMin(g)
        Pos(v) == FDiv(Maximum0(v), gmax)
        Neg(v) == FDiv(Maximum0(FNeg(v)), gmin)
    IN  <<Map3(Pos, g), Map3(Neg, g)>>

get_positive_negative_saliency(g) ==
    LET gmax == ArrayMax(g)
        gmin == ArrayMin(g)
        Pos(v) == FDiv(Maximum0(v), gmax)
        Neg(v) == FDiv(Maximum0(FNeg(v)), FNeg(gmin))
    IN  <<Map3(Pos, g), Map3(Neg, g)>>

\* Gradient values: of both signs, none positive, none negative.
MixedSamples ==
    <<Rat(-2, 1), Rat(-1, 2), Rat(0, 1), Rat(1, 3), Rat(1, 1), Rat(5, 2), Rat(-7, 4)>>

NonPositiveSamples == <<Rat(-3, 1), Rat(-1, 1), Rat(0, 1), Rat(-1, 2)>>

NonNegativeSamples == <<Rat(0, 1), Rat(2, 1), Rat(1, 4), Rat(3, 1)>>

\* A 3 x h x w array of samples; stride 0 makes every element the same.
GradPattern(samples, seed, stride, h, w) ==
    [c \in 1..3 |->
        [i \in 1..h |->
            [j \in 1..w |->
                samples[((seed + stride * (4 * (c - 1) + 2 * (i - 1) + (j - 1)))
                         % Len(samples)) + 1]]]]

GradInputs ==
    UNION {{GradPattern(smp, seed, stride, s[1], s[2]) :
                seed \in 0..(Len(smp) - 1), stride \in 0..1, s \in Shapes} :
           smp \in {MixedSamples, NonPositiveSamples, NonNegativeSamples}}

InitSaliency ==
    /\ IdleImage
    /\ IdleExport
    /\ pc = "gradient"
    /\ gradient \in GradInputs
    /\ pos_saliency = Unset
    /\ neg_saliency = Unset

\* pos_saliency, neg_saliency = get_positive_negative_saliency(gradient)
GetPositiveNegativeSaliency ==
    /\ pc = "gradient"
    /\ pos_saliency' = get_positive_negative_saliency(gradient)[1]
    /\ neg_saliency' = get_positive_negative_saliency(gradient)[2]
    /\ pc' = "saliency"
    /\ UNCHANGED <<gradient, imageVars, fsVars, callVars, locals>>

NextSaliency == GetPositiveNegativeSaliency

SpecSaliency == InitSaliency /\ [][NextSaliency]_vars

-----------------------------------------------------------------------------
(* The results directory, and save_gradient_images. *)

\* A file-system state and the operations made on it so far in one call.
FsState(exists, fls, ops) == [results_exists |-> exists, files |-> fls, log |-> ops]

\* if not os.path.exists('results'): os.makedirs('results')
EnsureResults(fs) ==
    IF ~fs.results_exists
    THEN [fs EXCEPT !.results_exists = TRUE,
                    !.log = Append(@, [op |-> "makedirs", path |-> "results"])]
    ELSE fs

\* ImWrite that empties the directory before it writes.
ImWrite_Truncating(fs, path, img) ==
    IF fs.results_exists
    THEN [fs EXCEPT !.files = (path :> img),
                    !.log = Append(@, [op |-> "imwrite", path |-> path])]
    ELSE fs

\* cv2.imwrite(path, img): the file at path now holds img.  Nothing is written
\* into a directory that does not exist.
ImWrite(fs, path, img) ==
    IF fs.results_exists
    THEN [fs EXCEPT !.files = (path :> img) @@ @,
                    !.log = Append(@, [op |-> "imwrite", path |-> path])]
    ELSE fs

\* os.path.join('results', name)
ResultsPath(name) == "results/" \o name

\* save_gradient_images subtracting the minimum in place (gradient -= ...),
\* in the caller's array.
save_gradient_images_InPlace(fs, h, gref, file_name, undef) ==
    LET fs1      == EnsureResults(fs)
        gmin     == ArrayMin(h[gref])
        SubMin(v) == FSub(v, gmin)
        h1       == [h EXCEPT ![gref] = Map3(SubMin, h[gref])]
        gmax     == ArrayMax(h1[gref])
        DivMax(v) == FDiv(v, gmax)
        h2       == [h1 EXCEPT ![gref] = Map3(DivMax, h1[gref])]
        Scale(v) == Uint8U(FMul(v, FromInt(255)), undef)
        result   == [pixels |-> ReverseLastAxis(Transpose120(Map3(Scale, h2[gref])))]
    IN  [fs |-> ImWrite(fs1, ResultsPath(file_name \o ".jpg"), result),
         heap |-> h2, ret |-> result]

\* save_gradient_images(gradient, file_name) in file system fs, with gradient
\* a reference into heap h; undef is the byte a cast of NaN gives.  The result
\* holds the file system and the heap after the call, and the returned array.
save_gradient_images(fs, h, gref, file_name, undef) ==
    LET fs1      == EnsureResults(fs)
        \* gradient = gradient - gradient.min(): a new array
        gmin     == ArrayMin(h[gref])
        SubMin(v) == FSub(v, gmin)
        g1       == Len(h) + 1
        h1       == Append(h, Map3(SubMin, h[gref]))
        \* gradient /= gradient.max(): in place
        gmax     == ArrayMax(h1[g1])
        DivMax(v) == FDiv(v, gmax)
        h2       == [h1 EXCEPT ![g1] = Map3(DivMax, h1[g1])]
        \* gradient = np.uint8(gradient * 255).transpose(1, 2, 0)
        Scale(v) == Uint8U(FMul(v, FromInt(255)), undef)
        as_uint8 == Transpose120(Map3(Scale, h2[g1]))
        path_to_file == ResultsPath(file_name \o ".jpg")
        \* gradient = gradient[..., ::-1]
        result   == [pixels |-> ReverseLastAxis(as_uint8)]
    IN  [fs |-> ImWrite(fs1, path_to_file, result), heap |-> h2, ret |-> result]

FileNames == {"snake", "cat_dog"}

\* One call of save_gradient_images with a gradient of G, the caller's array
\* at reference 1 of the heap.
SaveGradientImagesCall(G) ==
    /\ ncalls < MaxCalls
    /\ \E g \in G, file_name \in FileNames :
        \E undef \in (IF Cardinality(Elements(g)) = 1 THEN UndefinedBytes ELSE {0}) :
            LET r == save_gradient_images(FsState(results_exists, files, <<>>),
                                          <<g>>, 1, file_name, undef)
            IN  /\ results_exists' = r.fs.results_exists
                /\ files' = r.fs.files
                /\ log' = r.fs.log
                /\ heap' = r.heap
                /\ ret' = r.ret
                /\ call' = [fn |-> "save_gradient_images", gradient |-> g,
                            file_name |-> file_name]
    /\ raised' = ""
    /\ pc' = "returned"
    /\ ncalls' = ncalls + 1
    /\ UNCHANGED <<imageVars, saliencyVars, locals>>

InitExport ==
    /\ IdleImage
    /\ IdleSaliency
    /\ pc = "idle"
    /\ results_exists \in BOOLEAN
    /\ files = <<>>
    /\ heap = <<>>
    /\ call = Unset
    /\ log = <<>>
    /\ ret = Unset
    /\ raised = ""
    /\ ncalls = 0
    /\ locals = <<>>

\* A single export of a gradient.
ExportGradient == ncalls = 0 /\ SaveGradientImagesCall(GradInputs)

NextGradient == ExportGradient

SpecGradient == InitExport /\ [][NextGradient]_vars

-----------------------------------------------------------------------------
(* save_class_activation_on_image.  Its images are uniform: a shape and the *)
(* value every pixel holds (one number for a grayscale image, <<b, g, r>>   *)
(* for a colour image).                                                     *)

\* cv2.applyColorMap(v, cv2.COLORMAP_HSV) for one gray value: the library's
\* table walks the hue circle from red; the model computes the hue's colour,
\* as <<b, g, r>>.
ColorMapHSV(v) ==
    LET sector == (v * 6) \div 256
        f      == ((v * 6) % 256)
        rgb    == CASE sector = 0 -> <<255, f, 0>>
                    [] sector = 1 -> <<255 - f, 255, 0>>
                    [] sector = 2 -> <<0, 255, f>>
                    [] sector = 3 -> <<0, 255 - f, 255>>
                    [] sector = 4 -> <<f, 0, 255>>
                    [] OTHER      -> <<255, 0, 255 - f>>
    IN  <<rgb[3], rgb[2], rgb[1]>>

ApplyColorMap(img) ==
    [shape |-> <<img.shape[1], img.shape[2], 3>>, fill |-> ColorMapHSV(img.fill)]

\* cv2.resize(img, (side, side)) of a uniform colour image.
ResizeUniform(img, side) == [shape |-> <<side, side, 3>>, fill |-> img.fill]

\* numpy's broadcasting rule for two shapes of the same length.
Broadcastable(a, b) == \A k \in 1..Len(a) : a[k] = b[k] \/ a[k] = 1 \/ b[k] = 1

BroadcastShape(a, b) == [k \in 1..Len(a) |-> IF a[k] = 1 THEN b[k] ELSE a[k]]

Max3(t) == CHOOSE m \in {t[1], t[2], t[3]} : \A e \in {t[1], t[2], t[3]} : e <= m

\* The sides org_img is resized to.
CustomSide == 32

DefaultSide == 224

\* save_class_activation_on_image writing the heatmap before the grayscale map.
save_class_activation_on_image_HeatmapFirst(fs, network, org_img, activation_map, file_name) ==
    LET fs1 == EnsureResults(fs)
        activation_heatmap == ApplyColorMap(activation_map)
        fs2 == ImWrite(fs1, ResultsPath(file_name \o "_Cam_Heatmap.jpg"), activation_heatmap)
        fs3 == ImWrite(fs2, ResultsPath(file_name \o "_Cam_Grayscale.jpg"), activation_map)
        resized == IF network = "Custom" THEN ResizeUniform(org_img, CustomSide)
                   ELSE ResizeUniform(org_img, DefaultSide)
        sum == [k \in 1..3 |-> activation_heatmap.fill[k] + resized.fill[k]]
        blended ==
            [shape |-> BroadcastShape(activation_heatmap.shape, resized.shape),
             fill |-> [k \in 1..3 |->
                          Uint8(FMul(FromInt(255), FDiv(FromInt(sum[k]), FromInt(Max3(sum)))))]]
        fs4 == ImWrite(fs3, ResultsPath(file_name \o "_Cam_On_Image.jpg"), blended)
    IN  IF Broadcastable(activation_heatmap.shape, resized.shape)
        THEN [fs |-> fs4, ret |-> <<activation_map, activation_heatmap, blended>>,
              raised |-> ""]
        ELSE [fs |-> fs3, ret |-> Unset, raised |-> "ValueError"]

\* save_class_activation_on_image(network, org_img, activation_map, file_name)
\* in file system fs.  The result holds the file system after the call, the
\* returned tuple, and the exception raised ("" when the call returned).
save_class_activation_on_image(fs, network, org_img, activation_map, file_name) ==
    LET fs1 == EnsureResults(fs)
        \* Grayscale activation map
        fs2 == ImWrite(fs1, ResultsPath(file_name \o "_Cam_Grayscale.jpg"), activation_map)
        \* Heatmap of activation map
        activation_heatmap == ApplyColorMap(activation_map)
        fs3 == ImWrite(fs2, ResultsPath(file_name \o "_Cam_Heatmap.jpg"), activation_heatmap)
        \* Heatmap on picture
        resized == IF network = "Custom" THEN ResizeUniform(org_img, CustomSide)
                   ELSE ResizeUniform(org_img, DefaultSide)
        sum == [k \in 1..3 |-> activation_heatmap.fill[k] + resized.fill[k]]
        \* img_with_heatmap / np.max(img_with_heatmap), then np.uint8(255 * ...)
        blended ==
            [shape |-> BroadcastShape(activation_heatmap.shape, resized.shape),
             fill |-> [k \in 1..3 |->
                          Uint8(FMul(FromInt(255), FDiv(FromInt(sum[k]), FromInt(Max3(sum)))))]]
        fs4 == ImWrite(fs3, ResultsPath(file_name \o "_Cam_On_Image.jpg"), blended)
    IN  IF Broadcastable(activation_heatmap.shape, resized.shape)
        THEN [fs |-> fs4, ret |-> <<activation_map, activation_heatmap, blended>>,
              raised |-> ""]
        ELSE [fs |-> fs3, ret |-> Unset, raised |-> "ValueError"]

Networks == {"AlexNet", "Custom"}

\* Original images, of a size that is none of the sizes resized to.
OrgImages == {[shape |-> <<48, 64, 3>>, fill |-> <<10, 200, 90>>]}

\* Grayscale activation maps of the two network input sizes, and of one pixel.
ActivationMaps ==
    {[shape |-> <<side, side>>, fill |-> v] :
        side \in {1, CustomSide, DefaultSide}, v \in {0, 200}}

SaveClassActivationOnImage ==
    /\ ncalls < MaxCalls
    /\ \E network \in Networks, org_img \in OrgImages,
          activation_map \in ActivationMaps, file_name \in FileNames :
            LET r == save_class_activation_on_image(
                         FsState(results_exists, files, <<>>),
                         network, org_img, activation_map, file_name)
            IN  /\ results_exists' = r.fs.results_exists
                /\ files' = r.fs.files
                /\ log' = r.fs.log
                /\ ret' = r.ret
                /\ raised' = r.raised
                /\ pc' = IF r.raised = "" THEN "returned" ELSE "raised"
                /\ call' = [fn |-> "save_class_activation_on_image", network |-> network,
                            org_img |-> org_img, activation_map |-> activation_map,
                            file_name |-> file_name]
    /\ heap' = <<>>
    /\ ncalls' = ncalls + 1
    /\ UNCHANGED <<imageVars, saliencyVars, locals>>

\* The gradients exported between class-activation exports.
SavedGradients ==
    {GradPattern(MixedSamples, seed, 1, 1, 2) : seed \in {0, 3}}

SaveGradientImages == SaveGradientImagesCall(SavedGradients)

NextExport == SaveGradientImages \/ SaveClassActivationOnImage

SpecExport == InitExport /\ [][NextExport]_vars

-----------------------------------------------------------------------------
(* Python strings and slices.  A string the code takes apart is a sequence  *)
(* of one-character strings.                                                *)

Min(a, b) == IF a < b THEN a ELSE b

Max(a, b) == IF a > b THEN a ELSE b

\* A slice bound i of a sequence of length n, as Python clamps it.
SliceBound(i, n) == IF i < 0 THEN Max(i + n, 0) ELSE Min(i, n)

\* s[lo:hi] and s[lo:]
PySlice(s, lo, hi) == SubSeq(s, SliceBound(lo, Len(s)) + 1, SliceBound(hi, Len(s)))

PySliceFrom(s, lo) == SubSeq(s, SliceBound(lo, Len(s)) + 1, Len(s))

\* s[::-1]
Reversed(s) == [k \in 1..Len(s) |-> s[Len(s) + 1 - k]]

\* s.rfind(ch): the last index of ch in s, counted from 0, or -1.
RFind(s, ch) ==
    IF \E k \in 1..Len(s) : s[k] = ch
    THEN (CHOOSE k \in 1..Len(s) : s[k] = ch /\ \A m \in (k + 1)..Len(s) : s[m] # ch) - 1
    ELSE -1

\* s.find(sep): the first index of the substring sep in s, counted from 0, or -1.
Find(s, sep) ==
    LET hits == {k \in 1..(Len(s) - Len(sep) + 1) : SubSeq(s, k, k + Len(sep) - 1) = sep}
    IN  IF hits = {} THEN -1 ELSE (CHOOSE k \in hits : \A m \in hits : k <= m) - 1

\* s.split(sep)
RECURSIVE Split(_, _)
Split(s, sep) ==
    LET at == Find(s, sep)
    IN  IF at = -1 THEN <<s>>
        ELSE <<SubSeq(s, 1, at)>> \o Split(SubSeq(s, at + Len(sep) + 1, Len(s)), sep)

Digits == <<"0", "1", "2", "3", "4", "5", "6", "7", "8", "9">>

\* int(s) of a string of decimal digits.
RECURSIVE ParseInt(_)
ParseInt(s) ==
    IF Len(s) = 0 THEN 0
    ELSE 10 * ParseInt(SubSeq(s, 1, Len(s) - 1))
           + ((CHOOSE d \in 1..10 : Digits[d] = s[Len(s)]) - 1)

-----------------------------------------------------------------------------
(* get_params. *)

example_list ==
    <<<<<<"i", "n", "p", "u", "t", "_", "i", "m", "a", "g", "e", "s", "/",
        "s", "n", "a", "k", "e", ".", "j", "p", "g">>,
        56>>,
      <<<<"i", "n", "p", "u", "t", "_", "i", "m", "a", "g", "e", "s", "/",
        "c", "a", "t", "_", "d", "o", "g", ".", "p", "n", "g">>,
        243>>,
      <<<<"i", "n", "p", "u", "t", "_", "i", "m", "a", "g", "e", "s", "/",
        "s", "p", "i", "d", "e", "r", ".", "p", "n", "g">>,
        72>>,
      <<<<"i", "n", "p", "u", "t", "_", "i", "m", "a", "g", "e", "s", "/",
        "v", "o", "l", "c", "a", "n", "o", ".", "j", "p", "g">>,
        980>>,
      <<<<"i", "n", "p", "u", "t", "_", "i", "m", "a", "g", "e", "s", "/",
        "p", "e", "l", "i", "c", "a", "n", ".", "j", "p", "g">>,
        144>>,
      <<<<"i", "n", "p", "u", "t", "_", "i", "m", "a", "g", "e", "s", "/",
        "j", "e", "l", "l", "y", "f", "i", "s", "h", ".", "j", "p", "g">>,
        107>>,
      <<<<"i", "n", "p", "u", "t", "_", "i", "m", "a", "g", "e", "s", "/",
        "a", "d", "m", "i", "r", "a", "l", ".", "j", "p", "g">>,
        321>>>>

classes ==
    <<"plane", "car", "bird", "cat", "deer", "dog", "frog", "horse", "ship", "truck">>

\* The networks get_params defines a model for.
KnownNetworks == {"AlexNet", "VGG19", "ResNet50", "Custom"}

\* The first branch: the image, its preprocessed form, the target class and
\* the export name.  sample is the class of the test image the shuffling
\* loader yields.  The result holds the locals bound and the exception raised.
LoadInput(example_index, network, training, sample) ==
    IF network = "Custom"
    THEN IF training \in {"Normal", "Adversarial"}
         THEN [raised |-> "",
               locals |->
                   ("prep_img" :> [op |-> "Variable", sample |-> sample,
                                   normalized |-> (training = "Normal")])
                @@ ("target_class" :> sample)
                @@ ("file_name_to_export" :> classes[sample + 1])
                @@ ("original_image" :> [op |-> "testset", sample |-> sample,
                                         clipped |-> (training = "Normal")])]
         ELSE [raised |-> "", locals |-> <<>>]
    ELSE LET n == Len(example_list)
             selected_example == IF example_index < 0 THEN example_index + n
                                 ELSE example_index
         IN  IF selected_example \notin 0..(n - 1)
             THEN [raised |-> "IndexError", locals |-> <<>>]
             ELSE LET img_path == example_list[selected_example + 1][1]
                      original_image == [op |-> "imread", path |-> img_path]
                  IN  [raised |-> "",
                       locals |->
                           ("target_class" :> example_list[selected_example + 1][2])
                        @@ ("file_name_to_export" :>
                               PySlice(img_path, RFind(img_path, "/") + 1,
                                       RFind(img_path, ".")))
                        @@ ("original_image" :> original_image)
                        @@ ("prep_img" :> [op |-> "preprocess_image",
                                           cv2im |-> original_image,
                                           resize_im |-> TRUE])]

\* loadModel(training, structure) of the customization package.
loadModel(training, structure) ==
    [arch |-> "Custom", training |-> training, structure |-> structure,
     eval |-> FALSE, cuda |-> FALSE]

\* DefineModel with a final else that falls back to AlexNet.
DefineModel_Fallback(network, isTrained, training, structure) ==
    IF network = "VGG19"
    THEN "pretrained_model" :> [arch |-> "vgg19", pretrained |-> isTrained,
                                eval |-> TRUE, cuda |-> FALSE]
    ELSE IF network = "ResNet50"
    THEN "pretrained_model" :> [arch |-> "resnet50", pretrained |-> isTrained,
                                eval |-> TRUE, cuda |-> FALSE]
    ELSE IF network = "Custom"
    THEN "pretrained_model" :> loadModel(training, structure)
    ELSE "pretrained_model" :> [arch |-> "alexnet", pretrained |-> isTrained,
                                eval |-> TRUE, cuda |-> FALSE]

\* The second branch: the model of the network, when it has one.
DefineModel(network, isTrained, training, structure) ==
    IF network = "AlexNet"
    THEN "pretrained_model" :> [arch |-> "alexnet", pretrained |-> isTrained,
                                eval |-> TRUE, cuda |-> FALSE]
    ELSE IF network = "VGG19"
    THEN "pretrained_model" :> [arch |-> "vgg19", pretrained |-> isTrained,
                                eval |-> TRUE, cuda |-> FALSE]
    ELSE IF network = "ResNet50"
    THEN "pretrained_model" :> [arch |-> "resnet50", pretrained |-> isTrained,
                                eval |-> TRUE, cuda |-> FALSE]
    ELSE IF network = "Custom"
    THEN "pretrained_model" :> loadModel(training, structure)
    ELSE <<>>

ReturnedNames ==
    <<"original_image", "prep_img", "target_class", "file_name_to_export",
      "pretrained_model">>

\* get_params(example_index, network, isTrained, training, structure), with
\* cuda what torch.cuda.is_available() gives.  A local that is read before it
\* is bound raises UnboundLocalError.
get_params(example_index, network, isTrained, training, structure, cuda, sample) ==
    LET input == LoadInput(example_index, network, training, sample)
        bound == DefineModel(network, isTrained, training, structure) @@ input.locals
        moved == IF cuda
                 THEN [bound EXCEPT !["pretrained_model"].cuda = TRUE]
                 ELSE bound
    IN  IF input.raised # ""
        THEN [raised |-> input.raised, locals |-> input.locals, ret |-> Unset]
        ELSE IF cuda /\ "pretrained_model" \notin DOMAIN bound
        THEN [raised |-> "UnboundLocalError", locals |-> bound, ret |-> Unset]
        ELSE IF \E k \in 1..Len(ReturnedNames) : ReturnedNames[k] \notin DOMAIN moved
        THEN [raised |-> "UnboundLocalError", locals |-> moved, ret |-> Unset]
        ELSE [raised |-> "", locals |-> moved,
              ret |-> [k \in 1..Len(ReturnedNames) |-> moved[ReturnedNames[k]]]]

\* The CIFAR-10 classes of the sample the loader may yield.
SampleClasses == 0..(Len(classes) - 1)

ParamCalls ==
    [fn : {"get_params"},
     example_index : (-1)..Len(example_list),
     network : KnownNetworks \cup {"alexnet", "GoogLeNet", ""},
     isTrained : BOOLEAN,
     training : {"Normal", "Adversarial", "Natural"},
     structure : {""},
     cuda : BOOLEAN]

InitParams ==
    /\ IdleImage
    /\ IdleSaliency
    /\ results_exists = FALSE
    /\ files = <<>>
    /\ heap = <<>>
    /\ log = <<>>
    /\ ncalls = 0
    /\ pc = "call"
    /\ call \in ParamCalls
    /\ ret = Unset
    /\ raised = ""
    /\ locals = <<>>

GetParams ==
    /\ pc = "call"
    /\ call.fn = "get_params"
    /\ \E sample \in SampleClasses :
          LET r == get_params(call.example_index, call.network, call.isTrained,
                              call.training, call.structure, call.cuda, sample)
          IN  /\ ret' = r.ret
              /\ raised' = r.raised
              /\ locals' = r.locals
              /\ pc' = IF r.raised = "" THEN "returned" ELSE "raised"
    /\ UNCHANGED <<call, heap, log, ncalls, imageVars, saliencyVars, fsVars>>

NextParams == GetParams

SpecParams == InitParams /\ [][NextParams]_vars

-----------------------------------------------------------------------------
(* prediction_reader. *)

\* The first lines of input_images/labels.txt.
LabelLines ==
    <<<<"0", ":", " ", "'", "t", "e", "n", "c", "h", ",", " ", "T", "i", "n",
        "c", "a", " ", "t", "i", "n", "c", "a", "'", ",", "\n">>,
      <<"1", ":", " ", "'", "g", "o", "l", "d", "f", "i", "s", "h", ",", " ",
        "C", "a", "r", "a", "s", "s", "i", "u", "s", " ", "a", "u", "r", "a",
        "t", "u", "s", "'", ",", "\n">>,
      <<"2", ":", " ", "'", "g", "r", "e", "a", "t", " ", "w", "h", "i", "t",
        "e", " ", "s", "h", "a", "r", "k", ",", " ", "w", "h", "i", "t", "e",
        " ", "s", "h", "a", "r", "k", "'", ",", "\n">>,
      <<"3", ":", " ", "'", "t", "i", "g", "e", "r", " ", "s", "h", "a", "r",
        "k", ",", " ", "G", "a", "l", "e", "o", "c", "e", "r", "d", "o", " ",
        "c", "u", "v", "i", "e", "r", "i", "'", ",", "\n">>,
      <<"4", ":", " ", "'", "h", "a", "m", "m", "e", "r", "h", "e", "a", "d",
        ",", " ", "h", "a", "m", "m", "e", "r", "h", "e", "a", "d", " ", "s",
        "h", "a", "r", "k", "'", ",", "\n">>>>

\* The label dictionary: the classes for 'Custom', else the file's lines
\* parsed.  A line that does not split in two raises ValueError.
LabelDict(choose_network) ==
    IF choose_network = "Custom"
    THEN [raised |-> "", dict |-> [i \in 0..9 |-> classes[i + 1]]]
    ELSE LET parts == [l \in 1..Len(LabelLines) |-> Split(LabelLines[l], <<":", " ">>)]
             Key(l) == ParseInt(parts[l][1])
             Val(l) == Split(PySlice(parts[l][2], 1, -3), <<",">>)[1]
         IN  IF \E l \in 1..Len(LabelLines) : Len(parts[l]) # 2
             THEN [raised |-> "ValueError", dict |-> <<>>]
             ELSE [raised |-> "",
                   dict |-> [k \in {Key(l) : l \in 1..Len(LabelLines)} |->
                               Val(CHOOSE l \in 1..Len(LabelLines) :
                                       /\ Key(l) = k
                                       /\ \A m \in (l + 1)..Len(LabelLines) : Key(m) # k)]]

\* The exponential of an integer score.  The model takes the base 2 for e:
\* like e^x it is positive and strictly increasing, and its values are exact.
Exp(x) == IF x >= 0 THEN FromInt(2 ^ x) ELSE Rat(1, 2 ^ (-x))

RECURSIVE FSum(_)
FSum(x) == IF Len(x) = 0 THEN FromInt(0) ELSE FAdd(x[1], FSum(Tail(x)))

\* F.softmax(preds, dim=0)
Softmax(preds) ==
    LET e == [i \in 1..Len(preds) |-> Exp(preds[i])]
    IN  [i \in 1..Len(preds) |-> FDiv(e[i], FSum(e))]

\* The results x.argsort() may give: the indices (from 0) in an order that
\* sorts x ascending; the order of equal values is not specified.
ArgSorts(x) ==
    {[k \in 1..Len(x) |-> perm[k] - 1] :
        perm \in {q \in [1..Len(x) -> 1..Len(x)] :
                     /\ \A a, b \in 1..Len(x) : a # b => q[a] # q[b]
                     /\ \A k \in 1..(Len(x) - 1) : FLeq(x[q[k]], x[q[k + 1]])}}

\* prediction_reader without the reversal of the slice ([::-1]).
prediction_reader_Ascending(preds, length, choose_network, order) ==
    LET table    == LabelDict(choose_network)
        output   == Softmax(preds)
        toppreds == PySliceFrom(order, -length)
    IN  IF table.raised # ""
        THEN [raised |-> table.raised, ret |-> Unset]
        ELSE IF \E k \in 1..Len(toppreds) : toppreds[k] \notin DOMAIN table.dict
        THEN [raised |-> "KeyError", ret |-> Unset]
        ELSE [raised |-> "",
              ret |-> <<[k \in 1..Len(toppreds) |-> table.dict[toppreds[k]]],
                        [k \in 1..Len(toppreds) |-> output[toppreds[k] + 1]]>>]

\* prediction_reader(preds, length, choose_network), with order the result of
\* output.argsort().
prediction_reader(preds, length, choose_network, order) ==
    LET table    == LabelDict(choose_network)
        output   == Softmax(preds)
        toppreds == Reversed(PySliceFrom(order, -length))
    IN  IF table.raised # ""
        THEN [raised |-> table.raised, ret |-> Unset]
        ELSE IF \E k \in 1..Len(toppreds) : toppreds[k] \notin DOMAIN table.dict
        THEN [raised |-> "KeyError", ret |-> Unset]
        ELSE [raised |-> "",
              ret |-> <<[k \in 1..Len(toppreds) |-> table.dict[toppreds[k]]],
                        [k \in 1..Len(toppreds) |-> output[toppreds[k] + 1]]>>]

PredValues == {-1, 0, 2}

PredCalls ==
    [fn : {"prediction_reader"},
     preds : UNION {[1..n -> PredValues] : n \in 1..MaxN},
     length : (-1)..(MaxN + 1),
     choose_network : {"Custom", "VGG19"}]

InitPred ==
    /\ IdleImage
    /\ IdleSaliency
    /\ results_exists = FALSE
    /\ files = <<>>
    /\ heap = <<>>
    /\ log = <<>>
    /\ ncalls = 0
    /\ locals = <<>>
    /\ pc = "call"
    /\ call \in PredCalls
    /\ ret = Unset
    /\ raised = ""

PredictionReader ==
    /\ pc = "call"
    /\ call.fn = "prediction_reader"
    /\ \E order \in ArgSorts(Softmax(call.preds)) :
          LET r == prediction_reader(call.preds, call.length, call.choose_network, order)
          IN  /\ ret' = r.ret
              /\ raised' = r.raised
              /\ pc' = IF r.raised = "" THEN "returned" ELSE "raised"
    /\ UNCHANGED <<call, heap, log, ncalls, locals, imageVars, saliencyVars, fsVars>>

NextPred == PredictionReader

SpecPred == InitPred /\ [][NextPred]_vars

-----------------------------------------------------------------------------
(* Properties of preprocess_image and recreate_image. *)

\* The channel statistics in thousandths.
MeanMilli == <<485, 456, 406>>

StdMilli == <<229, 224, 225>>

\* C1: without resizing, recreate_image(preprocess_image(img)) is img: the
\* same shape, the same channel order and the same value at every element.
C1_RoundTrip ==
    (pc = "recreated" /\ cv2im # Unset /\ ~resize_im) => recreated_im = cv2im

\* A round trip of a 2 x 2 image whose first pixel holds 255 and two other values.
C1_Witness ==
    /\ pc = "recreated"
    /\ cv2im # Unset
    /\ ~resize_im
    /\ Shape3(cv2im) = <<2, 2, 3>>
    /\ cv2im[1][1] = <<255, 84, 169>>
    /\ recreated_im[1][1] = <<255, 84, 169>>

\* C2: without resizing the result has shape 1 x 3 x H x W and element
\* [0][c][i][j] is (img[i][j][2-c] / 255 - mean[c]) / std[c], that is, the
\* fraction (1000 * img[i][j][2-c] - 255 * mean) / (255 * std) with mean and
\* std in thousandths; with resizing the shape is 1 x 3 x 224 x 224.
C2_Normalised ==
    (pc \in {"preprocessed", "recreated"} /\ cv2im # Unset) =>
        IF resize_im
        THEN Shape4(im_as_var) = <<1, 3, 224, 224>>
        ELSE /\ Shape4(im_as_var) = <<1, 3, Len(cv2im), Len(cv2im[1])>>
             /\ \A c \in 0..2, i \in 1..Len(cv2im), j \in 1..Len(cv2im[1]) :
                    LET v == im_as_var[1][c + 1][i][j]
                        x == cv2im[i][j][(2 - c) + 1]
                    IN  v = Rat(1000 * x - 255 * MeanMilli[c + 1], 255 * StdMilli[c + 1])

\* A 1 x 2 image is preprocessed without resizing, and a 2 x 1 image with.
C2_Witness ==
    /\ pc = "preprocessed"
    /\ \/ /\ ~resize_im
          /\ Shape3(cv2im) = <<1, 2, 3>>
          /\ cv2im[1][2] = <<37, 122, 207>>
          /\ Shape4(im_as_var) = <<1, 3, 1, 2>>
       \/ /\ resize_im
          /\ Shape3(cv2im) = <<2, 1, 3>>
          /\ Len(im_as_var[1][1]) = 224

\* The denormalised value d = v * std[c] + mean[c] of a tensor element, exactly.
Denormalised(v, c) ==
    Rat(v[1] * StdMilli[c + 1] + MeanMilli[c + 1] * v[2], 1000 * v[2])

\* C3: the result of recreate_image on a 1 x 3 x H x W tensor is H x W x 3,
\* every element is an integer in 0..255, and the element at [i][j][2-c] is
\* 255 when d > 1, 0 when d < 0 and otherwise an integer nearest to 255 * d,
\* for d = v * std[c] + mean[c] and v the tensor's element [0][c][i][j].
C3_Saturates ==
    pc = "recreated" =>
        LET h == Len(im_as_var[1][1])
            w == Len(im_as_var[1][1][1])
        IN  /\ Shape3(recreated_im) = <<h, w, 3>>
            /\ \A c \in 0..2, i \in 1..h, j \in 1..w :
                LET d   == Denormalised(im_as_var[1][c + 1][i][j], c)
                    out == recreated_im[i][j][(2 - c) + 1]
                IN  /\ out \in 0..255
                    /\ d[1] > d[2] => out = 255
                    /\ d[1] < 0 => out = 0
                    /\ (d[1] >= 0 /\ d[1] <= d[2]) =>
                           Abs(2 * (255 * d[1] - out * d[2])) <= d[2]

\* A tensor given directly, with an element above the range (d > 1, giving
\* 255), one below it (d < 0, giving 0) and one inside whose 255 * d is no
\* integer.
C3_Witness ==
    /\ pc = "recreated"
    /\ cv2im = Unset
    /\ LET h == Len(recreated_im)
           w == Len(recreated_im[1])
           D(c, i, j) == Denormalised(im_as_var[1][c + 1][i][j], c)
       IN  /\ \E c \in 0..2, i \in 1..h, j \in 1..w :
                 D(c, i, j)[1] > D(c, i, j)[2] /\ recreated_im[i][j][3 - c] = 255
           /\ \E c \in 0..2, i \in 1..h, j \in 1..w :
                 D(c, i, j)[1] < 0 /\ recreated_im[i][j][3 - c] = 0
           /\ \E i \in 1..h, j \in 1..w :
                 /\ im_as_var[1][2][i][j] = <<1, 3>>
                 /\ recreated_im[i][j][2] = 135

-----------------------------------------------------------------------------
(* Properties of get_positive_negative_saliency. *)

Positions(x) == (1..Len(x)) \X (1..Len(x[1])) \X (1..Len(x[1][1]))

At(x, p) == x[p[1]][p[2]][p[3]]

\* a * b = c for finite values a, b, c, by cross-multiplication.
ProductIs(a, b, c) == a[1] * b[1] * c[2] = c[1] * a[2] * b[2]

\* C4: for a gradient with a strictly positive and a strictly negative
\* element, pos = max(0, g) / max(g) and neg = max(0, -g) / (-min(g)) at every
\* position, both lie in [0, 1], each map holds a 1, and at no position are
\* both non-zero.
C4_SaliencySplit ==
    (/\ pc = "saliency"
     /\ \E p \in Positions(gradient) : At(gradient, p)[1] > 0
     /\ \E p \in Positions(gradient) : At(gradient, p)[1] < 0) =>
        LET mx == CHOOSE m \in Elements(gradient) :
                      \A e \in Elements(gradient) : e[1] * m[2] <= m[1] * e[2]
            mn == CHOOSE m \in Elements(gradient) :
                      \A e \in Elements(gradient) : m[1] * e[2] <= e[1] * m[2]
        IN  /\ Shape3(pos_saliency) = Shape3(gradient)
            /\ Shape3(neg_saliency) = Shape3(gradient)
            /\ \A p \in Positions(gradient) :
                LET g   == At(gradient, p)
                    pos == At(pos_saliency, p)
                    neg == At(neg_saliency, p)
                IN  /\ pos[2] > 0 /\ neg[2] > 0
                    /\ ProductIs(pos, mx, IF g[1] > 0 THEN g ELSE <<0, 1>>)
                    /\ ProductIs(neg, FNeg(mn), IF g[1] < 0 THEN FNeg(g) ELSE <<0, 1>>)
                    /\ 0 <= pos[1] /\ pos[1] <= pos[2]
                    /\ 0 <= neg[1] /\ neg[1] <= neg[2]
                    /\ pos[1] = 0 \/ neg[1] = 0
            /\ \E p \in Positions(gradient) : At(pos_saliency, p) = <<1, 1>>
            /\ \E p \in Positions(gradient) : At(neg_saliency, p) = <<1, 1>>

\* A 3 x 2 x 2 gradient with elements of both signs, split into maps with
\* values strictly between 0 and 1.
C4_Witness ==
    /\ pc = "saliency"
    /\ Shape3(gradient) = <<3, 2, 2>>
    /\ \E p \in Positions(gradient) : At(gradient, p) = <<5, 2>>
    /\ \E p \in Positions(gradient) :
          /\ At(gradient, p) = <<1, 3>>
          /\ At(pos_saliency, p) = <<2, 15>>
          /\ At(neg_saliency, p) = <<0, 1>>
    /\ \E p \in Positions(gradient) :
          /\ At(gradient, p) = <<-1, 2>>
          /\ At(neg_saliency, p) = <<1, 4>>
          /\ At(pos_saliency, p) = <<0, 1>>

-----------------------------------------------------------------------------
(* Properties of save_gradient_images. *)

\* C9: for a 3 x H x W gradient g whose elements are not all equal the result
\* is H x W x 3, its element [i][j][k] is the floor of
\* 255 * (g[2-k][i][j] - min(g)) / (max(g) - min(g)), so it is in 0..255, 0 at
\* a minimum and 255 at a maximum; and the caller's array still holds g.
C9_MinMaxNormalised ==
    (/\ pc = "returned"
     /\ call.fn = "save_gradient_images"
     /\ Cardinality(Elements(call.gradient)) > 1) =>
        LET g     == call.gradient
            mx    == ArrayMax(g)
            mn    == ArrayMin(g)
            range == FSub(mx, mn)
            out   == ret.pixels
        IN  /\ Shape3(out) = <<Len(g[1]), Len(g[1][1]), 3>>
            /\ \A i \in 1..Len(g[1]), j \in 1..Len(g[1][1]), k \in 0..2 :
                LET x == g[(2 - k) + 1][i][j]
                    o == out[i][j][k + 1]
                    scaled == FMul(FromInt(255), FSub(x, mn))
                IN  /\ o \in 0..255
                    /\ FLeq(FMul(FromInt(o), range), scaled)
                    /\ FLess(scaled, FMul(FromInt(o + 1), range))
                    /\ x = mn => o = 0
                    /\ x = mx => o = 255
            /\ heap[1] = g

\* An exported 3 x 1 x 2 gradient whose minimum, maximum and a value between
\* them (1/3 in -2..5/2, giving floor(132.2)) show in the result.
C9_Witness ==
    /\ pc = "returned"
    /\ call.fn = "save_gradient_images"
    /\ Shape3(call.gradient) = <<3, 1, 2>>
    /\ ArrayMin(call.gradient) = <<-2, 1>>
    /\ ArrayMax(call.gradient) = <<5, 2>>
    /\ \E j \in 1..2, k \in 1..3 :
          call.gradient[4 - k][1][j] = <<-2, 1>> /\ ret.pixels[1][j][k] = 0
    /\ \E j \in 1..2, k \in 1..3 :
          call.gradient[4 - k][1][j] = <<5, 2>> /\ ret.pixels[1][j][k] = 255
    /\ \E j \in 1..2, k \in 1..3 :
          call.gradient[4 - k][1][j] = <<1, 3>> /\ ret.pixels[1][j][k] = 132

-----------------------------------------------------------------------------
(* Properties of the exports to the results directory. *)

\* The paths the last call wrote, in order.
WrittenPaths(ops) ==
    LET w == SelectSeq(ops, LAMBDA e : e.op = "imwrite")
    IN  [k \in 1..Len(w) |-> w[k].path]

MakeDirsOp == [op |-> "makedirs", path |-> "results"]

WriteOp(path) == [op |-> "imwrite", path |-> path]

\* The side org_img is resized to for a network.
SideOf(network) == IF network = "Custom" THEN 32 ELSE 224

\* The three paths of a class-activation export with file name f.
CamPaths(f) ==
    <<"results/" \o f \o "_Cam_Grayscale.jpg", "results/" \o f \o "_Cam_Heatmap.jpg",
      "results/" \o f \o "_Cam_On_Image.jpg">>

\* The original statement of C5: every call of save_class_activation_on_image
\* creates the results directory first when it is missing, then writes the
\* three files in order and nothing else, and returns the three images.
C5_AlwaysThreeFiles ==
    [][(ncalls' = ncalls + 1 /\ call'.fn = "save_class_activation_on_image") =>
          LET paths == CamPaths(call'.file_name)
          IN  /\ log' = (IF results_exists THEN <<>> ELSE <<MakeDirsOp>>)
                          \o [k \in 1..3 |-> WriteOp(paths[k])]
              /\ raised' = ""
              /\ ret' = [k \in 1..3 |-> files'[paths[k]]]]_vars

\* C5, amended: when the height and the width of activation_map are each 1 or
\* the side org_img is resized to (224; 32 for network 'Custom'), the call
\* creates the results directory first when it is missing, writes the
\* grayscale map, the heatmap and the blend to the three paths in this order
\* and to no other path, and returns the three written images in the same
\* order; for every other size it creates the directory when missing, writes
\* the first two files only and raises.
C5_ThreeFilesWhenShapesAgree ==
    [][(ncalls' = ncalls + 1 /\ call'.fn = "save_class_activation_on_image") =>
          LET paths == CamPaths(call'.file_name)
              side  == SideOf(call'.network)
              map   == call'.activation_map
              pre   == IF results_exists THEN <<>> ELSE <<MakeDirsOp>>
          IN  IF \A k \in 1..2 : map.shape[k] \in {1, side}
              THEN /\ log' = pre \o [k \in 1..3 |-> WriteOp(paths[k])]
                   /\ raised' = ""
                   /\ results_exists'
                   /\ files'[paths[1]] = map
                   /\ files'[paths[2]].shape = map.shape \o <<3>>
                   /\ files'[paths[3]].shape = <<side, side, 3>>
                   /\ ret' = [k \in 1..3 |-> files'[paths[k]]]
              ELSE /\ log' = pre \o [k \in 1..2 |-> WriteOp(paths[k])]
                   /\ raised' = "ValueError"]_vars

\* A class-activation export into a missing results directory that returned,
\* for network 'Custom' with a 32 x 32 activation map.
C5_Witness ==
    /\ pc = "returned"
    /\ call.fn = "save_class_activation_on_image"
    /\ call.network = "Custom"
    /\ call.activation_map.shape = <<32, 32>>
    /\ log[1] = MakeDirsOp
    /\ WrittenPaths(log) = CamPaths(call.file_name)
    /\ ret[3].shape = <<32, 32, 3>>

\* C10: after any export call the results directory exists; a call creates
\* it only when it is missing, never deletes a file or the directory, changes
\* the content of an existing file only when it writes that path, adds only
\* the paths it writes, and save_gradient_images with name f writes only
\* results/f.jpg.
C10_ResultsKept ==
    /\ [](ncalls > 0 => results_exists)
    /\ [][ncalls' = ncalls + 1 =>
            LET written == {WrittenPaths(log')[k] : k \in 1..Len(WrittenPaths(log'))}
            IN  /\ results_exists => results_exists'
                /\ (\E k \in 1..Len(log') : log'[k] = MakeDirsOp) <=> ~results_exists
                /\ \A p \in DOMAIN files :
                      /\ p \in DOMAIN files'
                      /\ p \notin written => files'[p] = files[p]
                /\ DOMAIN files' = DOMAIN files \cup written
                /\ call'.fn = "save_gradient_images" =>
                      WrittenPaths(log') = <<"results/" \o call'.file_name \o ".jpg">>]_vars

\* A second export that left the file of the first in place: two gradient
\* exports under different names, both files present.
C10_Witness ==
    /\ ncalls = 2
    /\ call.fn = "save_gradient_images"
    /\ call.file_name = "snake"
    /\ DOMAIN files = {"results/snake.jpg", "results/cat_dog.jpg"}
    /\ log = <<WriteOp("results/snake.jpg")>>

-----------------------------------------------------------------------------
(* Properties of get_params. *)

\* C6: get_params returns only for the networks 'AlexNet', 'VGG19',
\* 'ResNet50' and 'Custom'; for every other network name and every
\* example_index in 0..6 it reads the example image and preprocesses it, binds
\* no model and ends in an error.
C6_NoFallbackModel ==
    pc \in {"returned", "raised"} =>
        /\ pc = "returned" =>
              /\ call.network \in {"AlexNet", "VGG19", "ResNet50", "Custom"}
              /\ Len(ret) = 5
        /\ (/\ call.network \notin {"AlexNet", "VGG19", "ResNet50", "Custom"}
            /\ call.example_index \in 0..6) =>
              /\ pc = "raised"
              /\ raised # ""
              /\ ret = Unset
              /\ "original_image" \in DOMAIN locals
              /\ locals["original_image"]
                    = [op |-> "imread", path |-> example_list[call.example_index + 1][1]]
              /\ "prep_img" \in DOMAIN locals
              /\ locals["prep_img"].op = "preprocess_image"
              /\ locals["prep_img"].cv2im = locals["original_image"]
              /\ "pretrained_model" \notin DOMAIN locals

\* get_params(3, 'GoogLeNet', ...) ended in UnboundLocalError with the
\* volcano image read and preprocessed.
C6_Witness ==
    /\ pc = "raised"
    /\ call.network = "GoogLeNet"
    /\ call.example_index = 3
    /\ raised = "UnboundLocalError"
    /\ locals["file_name_to_export"] = <<"v", "o", "l", "c", "a", "n", "o">>
    /\ locals["target_class"] = 980
    /\ "pretrained_model" \notin DOMAIN locals

-----------------------------------------------------------------------------
(* Properties of prediction_reader. *)

\* The labels the first lines of the label file give, by index.
FileLabels ==
    <<<<"t", "e", "n", "c", "h">>,
      <<"g", "o", "l", "d", "f", "i", "s", "h">>,
      <<"g", "r", "e", "a", "t", " ", "w", "h", "i", "t", "e", " ", "s", "h",
        "a", "r", "k">>,
      <<"t", "i", "g", "e", "r", " ", "s", "h", "a", "r", "k">>,
      <<"h", "a", "m", "m", "e", "r", "h", "e", "a", "d">>>>

\* The label of index i (from 0) for a network.
LabelOf(choose_network, i) ==
    IF choose_network = "Custom"
    THEN <<"plane", "car", "bird", "cat", "deer", "dog", "frog", "horse", "ship",
           "truck">>[i + 1]
    ELSE FileLabels[i + 1]

\* The k-th largest of the values of x.
KthLargest(x, k) ==
    CHOOSE v \in {x[i] : i \in 1..Len(x)} :
        /\ Cardinality({i \in 1..Len(x) : x[i] > v}) < k
        /\ k <= Cardinality({i \in 1..Len(x) : x[i] >= v})

RECURSIVE SumInts(_)
SumInts(x) == IF Len(x) = 0 THEN 0 ELSE x[1] + SumInts(Tail(x))

\* C7: for 1 <= length <= n the returned probabilities are in non-increasing
\* order, and there are distinct indices, the k-th one holding the k-th
\* largest score, such that the k-th probability is the softmax of preds at
\* that index (its weight over the sum of all weights) and the k-th label is
\* the label of that index.
C7_TopPredictions ==
    (/\ pc = "returned"
     /\ call.fn = "prediction_reader"
     /\ 1 <= call.length
     /\ call.length <= Len(call.preds)) =>
        LET preds  == call.preds
            n      == Len(preds)
            labels == ret[1]
            probs  == ret[2]
            low    == CHOOSE v \in {preds[i] : i \in 1..n} : \A i \in 1..n : v <= preds[i]
            weight == [i \in 1..n |-> 2 ^ (preds[i] - low)]
        IN  /\ Len(labels) = call.length
            /\ Len(probs) = call.length
            /\ \A k \in 1..(call.length - 1) :
                  probs[k + 1][1] * probs[k][2] <= probs[k][1] * probs[k + 1][2]
            /\ \E idx \in [1..call.length -> 1..n] :
                  /\ \A a, b \in 1..call.length : a # b => idx[a] # idx[b]
                  /\ \A k \in 1..call.length :
                        /\ preds[idx[k]] = KthLargest(preds, k)
                        /\ probs[k][2] > 0
                        /\ probs[k][1] * SumInts(weight) = probs[k][2] * weight[idx[k]]
                        /\ labels[k] = LabelOf(call.choose_network, idx[k] - 1)

\* The top two of the scores <<0, 2, -1>> with the file's labels: goldfish
\* with 8/11, then tench with 2/11.
C7_Witness ==
    /\ pc = "returned"
    /\ call.fn = "prediction_reader"
    /\ call.choose_network = "VGG19"
    /\ call.preds = <<0, 2, -1>>
    /\ call.length = 2
    /\ ret[1] = <<FileLabels[2], FileLabels[1]>>
    /\ ret[2] = <<<<8, 11>>, <<2, 11>>>>

\* C8 as stated: for 0 <= length <= n both returned sequences have exactly
\* length elements, none when length = 0.
C8_ExactlyLength ==
    (/\ pc = "returned"
     /\ call.fn = "prediction_reader"
     /\ 0 <= call.length
     /\ call.length <= Len(call.preds)) =>
        /\ Len(ret[1]) = call.length
        /\ Len(ret[2]) = call.length

=============================================================================
